---- MODULE Spec2Model ----
(***************************************************************************)
(* Delta application (check_delta_filename, apply_one_delta, apply_deltas) *)
(* and the 3rd-party permission gate (validate_permissions,                *)
(* validate_file_permissions) of swupd-client.                             *)
(*                                                                         *)
(* Strings are sequences of one-character strings, so that str_len,        *)
(* strchr, pointer arithmetic and hash_assign are computed on characters.  *)
(***************************************************************************)
EXTENDS Integers, Sequences, FiniteSets, TLC

(***************************************************************************)
(* Bounds.  SWUPD_HASH_LEN is 65 in the program (64 hex digits and the     *)
(* NUL); the model scales it down, every offset below is relative to it.   *)
(***************************************************************************)
SWUPD_HASH_LEN == 3

\* most entries the pending-deltas directory starts with
MaxDeltas == 2

\* most files in the list handed to validate_file_permissions
MaxBatch == 3

\* longest text in front of a well-sized "A-B" tail that the codec is tried on
MaxPrefixLen == 4

\* const size_t hash_len = SWUPD_HASH_LEN - 1;
hash_len == SWUPD_HASH_LEN - 1

(***************************************************************************)
(* Strings                                                                 *)
(***************************************************************************)
Dash == "-"

\* characters the codec is tried on: two hash digits and the separator
NameChars == {"a", "b", Dash}

\* every string over NameChars up to the longest name tried
AllNames == UNION {[1..n -> NameChars] : n \in 0..(2 * hash_len + 1 + MaxPrefixLen)}

str_len(s) == Len(s)

\* strchr(s, c): index of the first c in s, 0 when there is none (NULL)
strchr(s, c) ==
    IF \E i \in 1..Len(s) : s[i] = c
    THEN CHOOSE i \in 1..Len(s) : s[i] = c /\ \A j \in 1..(i - 1) : s[j] # c
    ELSE 0

\* s + n: the string from offset n (0-based) to the terminator
Advance(s, n) == SubSeq(s, n + 1, Len(s))

\* hash_assign(src, dst): copies SWUPD_HASH_LEN - 1 characters and terminates
hash_assign(src) == SubSeq(src, 1, SWUPD_HASH_LEN - 1)

hash_equal(a, b) == a = b

ParseFail == [ok |-> FALSE, from |-> <<>>, to |-> <<>>]

\* the loop "for (i = 0; i < 2; i++) { s = strchr(s, '-'); if (!s) return false; s++; }"
\* result: [found, s]
SkipOneDash(r) ==
    IF ~r.found THEN r
    ELSE LET i == strchr(r.s, Dash)
         IN  IF i = 0 THEN [found |-> FALSE, s |-> <<>>]
             ELSE [found |-> TRUE, s |-> Advance(r.s, i)]

SkipVersions(s) == SkipOneDash(SkipOneDash([found |-> TRUE, s |-> s]))

\* mutant: the separator is looked for one character too far
check_delta_filename_sep_off_by_one(delta_name) ==
    LET skipped == IF str_len(delta_name) > hash_len * 2 + 1
                   THEN SkipVersions(delta_name)
                   ELSE [found |-> TRUE, s |-> delta_name]
        s == skipped.s
    IN  IF ~skipped.found THEN ParseFail
        ELSE IF str_len(s) # hash_len * 2 + 1 THEN ParseFail
        ELSE IF s[hash_len + 2] # Dash THEN ParseFail
        ELSE [ok |-> TRUE,
              from |-> hash_assign(s),
              to |-> hash_assign(Advance(s, hash_len + 1))]

check_delta_filename(delta_name) ==
    LET skipped == IF str_len(delta_name) > hash_len * 2 + 1
                   THEN SkipVersions(delta_name)
                   ELSE [found |-> TRUE, s |-> delta_name]
        s == skipped.s
    IN  IF ~skipped.found THEN ParseFail
        ELSE IF str_len(s) # hash_len * 2 + 1 THEN ParseFail
        ELSE IF s[hash_len + 1] # Dash THEN ParseFail
        ELSE [ok |-> TRUE,
              from |-> hash_assign(s),
              to |-> hash_assign(Advance(s, hash_len + 1))]

(***************************************************************************)
(* Files and content hashes.  A file's content is its data and its         *)
(* extended attributes; compute_hash_from_file sets use_xattrs, so the     *)
(* hash covers both.  Equal hash means equal content (spec section 3).     *)
(***************************************************************************)
NoFile == [exists |-> FALSE, data |-> "", xattrs |-> ""]

MkFile(d, x) == [exists |-> TRUE, data |-> d, xattrs |-> x]

\* d1: content the deltas were made from; d2: content they are meant to
\* produce; d3: anything else (truncated or wrong output)
Data == {"d1", "d2", "d3"}

Xattrs == {"x0", "x1"}

HashDigit(f) ==
    CASE f.data = "d1" /\ f.xattrs = "x0" -> "a"
      [] f.data = "d1" /\ f.xattrs = "x1" -> "b"
      [] f.data = "d2" /\ f.xattrs = "x0" -> "c"
      [] f.data = "d2" /\ f.xattrs = "x1" -> "d"
      [] f.data = "d3" /\ f.xattrs = "x0" -> "e"
      [] f.data = "d3" /\ f.xattrs = "x1" -> "f"

RECURSIVE Rep(_, _)
Rep(c, n) == IF n = 0 THEN <<>> ELSE <<c>> \o Rep(c, n - 1)

\* the hash string (hash_len digits) of a file's content
ContentHash(f) == Rep(HashDigit(f), hash_len)

Hashes == {ContentHash(MkFile(d, x)) : d \in Data, x \in Xattrs}

HashFailure == [ok |-> FALSE, hash |-> <<>>]

\* populate_file_struct + compute_hash: the hash of the file at a path, or
\* failure when the file is not there or cannot be hashed
compute_hash(f, unreadable) ==
    IF ~f.exists \/ unreadable THEN HashFailure
    ELSE [ok |-> TRUE, hash |-> ContentHash(f)]

compute_hash_from_file(f, unreadable) ==
    LET r == compute_hash(f, unreadable)
    IN  IF ~r.ok THEN HashFailure ELSE [ok |-> TRUE, hash |-> hash_assign(r.hash)]

(***************************************************************************)
(* State                                                                   *)
(***************************************************************************)
VARIABLES
    pc,            \* position of the operation under way
    log,           \* diagnostics emitted so far (warn/info)
    codecName,     \* name handed to check_delta_filename
    codecResult,   \* what check_delta_filename returned for codecName
    dirExists,     \* the pending-deltas directory can be opened
    deltaDir,      \* entries of the pending-deltas directory (without . and ..)
    dirAtStart,    \* entries that were there when apply_deltas was called
    pending,       \* entries readdir has not yet returned
    manifest,      \* current_manifest->files, in stored order
    disk,          \* install root: path -> file
    staged,        \* staging area: hash -> file
    last,          \* what the most recent loop iteration of apply_deltas did
    stagedAtStart, \* the staging area when apply_deltas was first called
    payload,       \* what each delta file makes the patch step do, where fixed
    workers,       \* the step each worker of a parallel sweep is at
    session,       \* bookkeeping over the calls of apply_deltas, where kept
    files,         \* files_to_be_updated, in list order
    stagedStat,    \* lstat of the staged file of each list element
    installedStat, \* lstat of the installed file of each list element
    verdicts,      \* validate_permissions' return code for each list element
    aggregate,     \* third_party_process_files' return code
    prompted,      \* confirm_action was called
    answer,        \* what confirm_action returned
    gateRet        \* validate_file_permissions' return code

codecVars == <<codecName, codecResult>>

sweepVars == <<dirExists, deltaDir, dirAtStart, pending, manifest, disk, staged, last,
              stagedAtStart, payload, workers, session>>

permVars == <<files, stagedStat, installedStat, verdicts, aggregate, prompted, answer, gateRet>>

vars == <<pc, log, codecVars, sweepVars, permVars>>

\* one diagnostic: the message, and the delta file and/or the file it names
Diag(msg, name, file) == [msg |-> msg, name |-> name, file |-> file]

NoName == <<>>

NoLast ==
    [name |-> NoName, outcome |-> "none", from |-> <<>>, to |-> <<>>,
     found |-> "", primitive |-> "not called", wrote |-> "", hashFailed |-> FALSE,
     unreadable |-> ""]

\* no bookkeeping: one call of apply_deltas, nothing recorded
NoSession ==
    [track |-> FALSE, run |-> 1, crashed |-> FALSE, primCalls |-> 0, primFailed |-> FALSE,
     order |-> <<>>, snap |-> <<>>]

CodecIdle ==
    /\ codecName = NoName
    /\ codecResult = [done |-> FALSE, ok |-> FALSE, from |-> <<>>, to |-> <<>>]

SweepIdle ==
    /\ dirExists = FALSE
    /\ deltaDir = {}
    /\ dirAtStart = {}
    /\ pending = {}
    /\ manifest = <<>>
    /\ disk = <<>>
    /\ staged = <<>>
    /\ last = NoLast
    /\ stagedAtStart = <<>>
    /\ workers = <<>>
    /\ payload = <<>>
    /\ session = NoSession

PermIdle ==
    /\ files = <<>>
    /\ stagedStat = <<>>
    /\ installedStat = <<>>
    /\ verdicts = <<>>
    /\ aggregate = "none"
    /\ prompted = FALSE
    /\ answer = "none"
    /\ gateRet = "none"

(***************************************************************************)
(* check_delta_filename on every name up to the length bound               *)
(***************************************************************************)
InitCodec ==
    /\ pc = "codec"
    /\ log = {}
    /\ codecName \in AllNames
    /\ codecResult = [done |-> FALSE, ok |-> FALSE, from |-> <<>>, to |-> <<>>]
    /\ SweepIdle
    /\ PermIdle

CheckDeltaFilename ==
    /\ pc = "codec"
    /\ ~codecResult.done
    /\ LET r == check_delta_filename(codecName)
       IN  codecResult' = [done |-> TRUE, ok |-> r.ok, from |-> r.from, to |-> r.to]
    /\ UNCHANGED <<pc, log, codecName, sweepVars, permVars>>

NextCodec == CheckDeltaFilename

SpecCodec == InitCodec /\ [][NextCodec]_vars

(***************************************************************************)
(* The delta sweep: apply_deltas and what it calls                         *)
(***************************************************************************)
Paths == {"/p1", "/p2"}

S1 == ContentHash(MkFile("d1", "x0"))
S2 == ContentHash(MkFile("d1", "x1"))
T1 == ContentHash(MkFile("d2", "x0"))
T2 == ContentHash(MkFile("d2", "x1"))

Join(a, b) == a \o <<Dash>> \o b

VersionPrefix == <<"1", Dash, "2", Dash>>

\* entries the pending-deltas directory may hold: a current and a legacy
\* name for one delta, a delta with another source, a delta to the same
\* target whose source carries other attributes than the target, and a
\* malformed name
DeltaNames ==
    { Join(S1, T1),
      VersionPrefix \o Join(S1, T1),
      Join(S2, T2),
      Join(S2, T1),
      S1 }

\* struct file, the fields apply_deltas reads
FileRecord(fn, h, del, gho, isf) ==
    [filename |-> fn, hash |-> h, is_deleted |-> del, is_ghosted |-> gho, is_file |-> isf]

\* The two trees the sweep touches besides the pending-deltas directory: the
\* staging area (hash -> file) and the install root (file name -> file).  A
\* path names the tree and the key in it.
FileSystem(area, root) == [staged |-> area, disk |-> root]

\* statedir_get_staged_file(hash): the staging area is keyed by the hash
statedir_get_staged_file(h) == [tree |-> "staged", key |-> h]

\* string_or_die(&filename, "%s/%s", globals.path_prefix, file->filename)
InstallPath(fn) == [tree |-> "root", key |-> fn]

\* the file at a path
FileAt(fs, path) ==
    IF path.tree = "staged" THEN fs.staged[path.key] ELSE fs.disk[path.key]

\* the file system with the file at a path replaced
WriteAt(fs, path, f) ==
    IF path.tree = "staged"
    THEN [fs EXCEPT !.staged[path.key] = f]
    ELSE [fs EXCEPT !.disk[path.key] = f]

\* lstat(path, &stat) == 0
lstat_ok(f) == f.exists

\* sys_rm(delta_file): the entry is gone from the directory
sys_rm(dir, ent) == dir \ {ent}

\* remove(path)
remove(fs, path) == WriteAt(fs, path, NoFile)

\* What apply_bsdiff_delta (libbsdiff) can do with a destination that does not
\* exist: succeed having written the intended data or other data, or fail
\* having written nothing or a part of the destination.
PatchResults ==
    { [failed |-> FALSE, wrote |-> "d2"],
      [failed |-> FALSE, wrote |-> "d3"],
      [failed |-> TRUE,  wrote |-> ""],
      [failed |-> TRUE,  wrote |-> "d3"] }

\* the destination after apply_bsdiff_delta: new files carry no attributes
apply_bsdiff_delta(fs, from_file, to_staged, res) ==
    IF res.wrote = "" THEN fs
    ELSE WriteAt(fs, to_staged, MkFile(res.wrote, "x0"))

\* xattrs_copy(src, dst): dst gets the attributes of src
xattrs_copy(fs, src, dst) ==
    WriteAt(fs, dst, [FileAt(fs, dst) EXCEPT !.xattrs = FileAt(fs, src).xattrs])

\* files whose hash computation fails although they exist: at most one a step
HashFailChoices == {"none", "staged"} \cup Paths

MsgHashFailed == "Couldn't use delta file: hash calculation failed"
MsgWrongHash == "Couldn't use delta file: application resulted in wrong hash"
MsgInvalidName == "Invalid name for delta file"
MsgMissingOrCorrupted == "File is missing or corrupted"
MsgNoSource == "Couldn't use delta file because original file is corrupted or missing"
MsgRepairHint == "Consider running swupd repair to fix the issue"

\* mutant: the staged output is kept when its hash is wrong
apply_one_delta_keeps_wrong_hash(fs, from_file, to_staged, delta_file, to_hash, res, hfail) ==
    LET patched == apply_bsdiff_delta(fs, from_file, to_staged, res)
        copied == xattrs_copy(patched, from_file, to_staged)
        h == compute_hash_from_file(FileAt(copied, to_staged), hfail = "staged")
    IN  IF res.failed
        THEN [fs |-> patched, diags |-> {}, outcome |-> "primitive failed"]
        ELSE IF ~h.ok
        THEN [fs |-> remove(copied, to_staged),
              diags |-> {Diag(MsgHashFailed, delta_file, "")},
              outcome |-> "hash failed"]
        ELSE IF ~hash_equal(h.hash, to_hash)
        THEN [fs |-> copied,
              diags |-> {Diag(MsgWrongHash, delta_file, "")},
              outcome |-> "wrong hash"]
        ELSE [fs |-> copied, diags |-> {}, outcome |-> "applied"]

\* mutant: the attributes are copied from the staged output to the source
apply_one_delta_xattrs_swapped(fs, from_file, to_staged, delta_file, to_hash, res, hfail) ==
    LET patched == apply_bsdiff_delta(fs, from_file, to_staged, res)
        copied == xattrs_copy(patched, to_staged, from_file)
        h == compute_hash_from_file(FileAt(copied, to_staged), hfail = "staged")
    IN  IF res.failed
        THEN [fs |-> patched, diags |-> {}, outcome |-> "primitive failed"]
        ELSE IF ~h.ok
        THEN [fs |-> remove(copied, to_staged),
              diags |-> {Diag(MsgHashFailed, delta_file, "")},
              outcome |-> "hash failed"]
        ELSE IF ~hash_equal(h.hash, to_hash)
        THEN [fs |-> remove(copied, to_staged),
              diags |-> {Diag(MsgWrongHash, delta_file, "")},
              outcome |-> "wrong hash"]
        ELSE [fs |-> copied, diags |-> {}, outcome |-> "applied"]

\* apply_one_delta: the file system, the diagnostics and the path taken.
\* res is what the patch primitive does, hfail the file that cannot be hashed.
apply_one_delta(fs, from_file, to_staged, delta_file, to_hash, res, hfail) ==
    LET patched == apply_bsdiff_delta(fs, from_file, to_staged, res)
        copied == xattrs_copy(patched, from_file, to_staged)
        h == compute_hash_from_file(FileAt(copied, to_staged), hfail = "staged")
    IN  IF res.failed
        THEN [fs |-> patched, diags |-> {}, outcome |-> "primitive failed"]
        ELSE IF ~h.ok
        THEN [fs |-> remove(copied, to_staged),
              diags |-> {Diag(MsgHashFailed, delta_file, "")},
              outcome |-> "hash failed"]
        ELSE IF ~hash_equal(h.hash, to_hash)
        THEN [fs |-> remove(copied, to_staged),
              diags |-> {Diag(MsgWrongHash, delta_file, "")},
              outcome |-> "wrong hash"]
        ELSE [fs |-> copied, diags |-> {}, outcome |-> "applied"]

NotFound == [found |-> FALSE, path |-> "", diags |-> {}]

\* mutant: the first record with the nominal hash is taken without hashing
\* the file on disk
RECURSIVE FindSource_unverified(_, _, _, _, _)
FindSource_unverified(records, i, from, root, hfail) ==
    IF i > Len(records) THEN NotFound
    ELSE LET file == records[i]
         IN  IF file.is_deleted \/ file.is_ghosted \/ ~file.is_file
                \/ ~hash_equal(file.hash, from)
             THEN FindSource_unverified(records, i + 1, from, root, hfail)
             ELSE [found |-> TRUE, path |-> file.filename, diags |-> {}]

\* mutant: the scan gives up at the first record with the nominal hash whose
\* file on disk fails the check
RECURSIVE FindSource_stops_at_first_match(_, _, _, _, _)
FindSource_stops_at_first_match(records, i, from, root, hfail) ==
    IF i > Len(records) THEN NotFound
    ELSE LET file == records[i]
             filename == file.filename
             h == compute_hash_from_file(root[filename], hfail = filename)
         IN  IF file.is_deleted \/ file.is_ghosted \/ ~file.is_file
                \/ ~hash_equal(file.hash, from)
             THEN FindSource_stops_at_first_match(records, i + 1, from, root, hfail)
             ELSE IF ~h.ok \/ ~hash_equal(file.hash, h.hash)
             THEN [NotFound EXCEPT !.diags =
                      {Diag(MsgMissingOrCorrupted, NoName, file.filename)}]
             ELSE [found |-> TRUE, path |-> filename, diags |-> {}]

\* the scan "for (; ll && !found; ll = ll->next)" from list element i on
RECURSIVE FindSource(_, _, _, _, _)
FindSource(records, i, from, root, hfail) ==
    IF i > Len(records) THEN NotFound
    ELSE LET file == records[i]
             filename == file.filename
             h == compute_hash_from_file(root[filename], hfail = filename)
         IN  IF file.is_deleted \/ file.is_ghosted \/ ~file.is_file
                \/ ~hash_equal(file.hash, from)
             THEN FindSource(records, i + 1, from, root, hfail)
             ELSE IF ~h.ok \/ ~hash_equal(file.hash, h.hash)
             THEN LET rest == FindSource(records, i + 1, from, root, hfail)
                  IN  [rest EXCEPT !.diags =
                          @ \cup {Diag(MsgMissingOrCorrupted, NoName, file.filename)}]
             ELSE [found |-> TRUE, path |-> filename, diags |-> {}]

\* apply_deltas up to the first readdir: opendir, and the early return when
\* the directory cannot be opened
ApplyDeltasOpen ==
    /\ pc = "call"
    /\ pc' = IF dirExists THEN "readdir" ELSE "returned"
    /\ pending' = IF dirExists THEN deltaDir ELSE {}
    /\ UNCHANGED <<log, codecVars, dirExists, deltaDir, dirAtStart, manifest, disk,
                   staged, last, stagedAtStart, payload, workers, session, permVars>>

\* mutant: the delta file is left in place
remove_delta_file_skipped(dir, delta_file) == dir

\* the code at label "next": sys_rm(delta_file)
remove_delta_file(dir, delta_file) == sys_rm(dir, delta_file)

\* mutant: the existence check of the staged target is dropped
lstat_staged_never(fs, to_staged) == FALSE

\* lstat(to_staged, &stat) == 0
lstat_staged(fs, to_staged) == lstat_ok(FileAt(fs, to_staged))

\* The body of "while ((ent = readdir(dir)))" for the entry ent, up to the
\* label next: the file system after it, the diagnostics, whether the patch
\* primitive was called, and the record of what happened.  hfail is the file
\* that cannot be hashed in this iteration, res what the primitive does.
LoopBody(ent, fs, hfail, res) ==
    LET delta_file == ent
        parsed == check_delta_filename(ent)
        from == parsed.from
        to == parsed.to
        to_staged == statedir_get_staged_file(to)
        scan == FindSource(manifest, 1, from, fs.disk, hfail)
        done == apply_one_delta(fs, InstallPath(scan.path), to_staged,
                                delta_file, to, res, hfail)
        seen == [NoLast EXCEPT !.name = ent, !.from = from, !.to = to]
        scanned == [seen EXCEPT !.unreadable =
                       IF /\ hfail \in Paths
                          /\ fs.disk[hfail].exists
                          /\ ContentHash(fs.disk[hfail]) = from
                       THEN hfail ELSE ""]
    IN  IF ~parsed.ok
        THEN [fs |-> fs, called |-> FALSE,
              diags |-> {Diag(MsgInvalidName, delta_file, "")},
              last |-> [NoLast EXCEPT !.name = ent, !.outcome = "invalid name"]]
        ELSE IF lstat_staged(fs, to_staged)
        THEN [fs |-> fs, called |-> FALSE, diags |-> {},
              last |-> [seen EXCEPT !.outcome = "already staged"]]
        ELSE IF ~scan.found
        THEN [fs |-> fs, called |-> FALSE,
              diags |-> scan.diags \cup {Diag(MsgNoSource, NoName, ""),
                                         Diag(MsgRepairHint, NoName, "")},
              last |-> [scanned EXCEPT !.outcome = "no source"]]
        ELSE [fs |-> done.fs, called |-> TRUE,
              diags |-> scan.diags \cup done.diags,
              last |-> [scanned EXCEPT !.outcome = done.outcome,
                                       !.found = scan.path,
                                       !.primitive = IF res.failed THEN "failed"
                                                     ELSE "succeeded",
                                       !.wrote = res.wrote,
                                       !.hashFailed = (~res.failed /\ hfail = "staged")]]

\* the environment of an iteration in which nothing goes wrong
QuietEnv == [hfail |-> "none", res |-> [failed |-> FALSE, wrote |-> "d2"]]

\* What the environment may do while ent is processed.  Only what the
\* iteration consults is varied: no file is hashed when the name is invalid or
\* the target is staged, and the primitive runs only when a source is found.
\* The behaviour of the delta file may have been fixed beforehand.
EnvChoices(ent, fs) ==
    LET parsed == check_delta_filename(ent)
    IN  IF ent \in DOMAIN payload THEN {payload[ent]}
        ELSE IF ~parsed.ok THEN {QuietEnv}
        ELSE IF lstat_staged(fs, statedir_get_staged_file(parsed.to)) THEN {QuietEnv}
        ELSE UNION { IF FindSource(manifest, 1, parsed.from, fs.disk, hfail).found
                     THEN {[hfail |-> hfail, res |-> res] : res \in PatchResults}
                     ELSE {[QuietEnv EXCEPT !.hfail = hfail]}
                     : hfail \in HashFailChoices }

\* one iteration of "while ((ent = readdir(dir)))" for the entry ent
ApplyDeltasEntry(ent) ==
    /\ pc = "readdir"
    /\ ent \in pending
    /\ \E env \in EnvChoices(ent, FileSystem(staged, disk)) :
        \E body \in {LoopBody(ent, FileSystem(staged, disk), env.hfail, env.res)} :
            /\ log' = log \cup body.diags
            /\ last' = body.last
            /\ staged' = body.fs.staged
            /\ disk' = body.fs.disk
            /\ session' = IF session.track
                          THEN [session EXCEPT
                                   !.primCalls = IF body.called THEN @ + 1 ELSE @,
                                   !.primFailed = @ \/ body.last.primitive = "failed",
                                   !.order = Append(@, ent)]
                          ELSE session
    /\ deltaDir' = remove_delta_file(deltaDir, ent)
    /\ pending' = pending \ {ent}
    /\ UNCHANGED <<pc, codecVars, dirExists, dirAtStart, manifest, stagedAtStart, payload, workers,
                   permVars>>

\* readdir returns NULL: closedir and return
ApplyDeltasReturn ==
    /\ pc = "readdir"
    /\ pending = {}
    /\ pc' = "returned"
    /\ UNCHANGED <<log, codecVars, sweepVars, permVars>>

\* is_deleted, is_ghosted, is_file of the records tried: a regular file, and
\* one record for each condition that makes the scan pass a record over
RecordFlags ==
    { <<FALSE, FALSE, TRUE>>, <<TRUE, FALSE, TRUE>>,
      <<FALSE, TRUE, TRUE>>, <<FALSE, FALSE, FALSE>> }

ManifestRecords ==
    { FileRecord(fn, h, fl[1], fl[2], fl[3]) : fn \in Paths, h \in {S1, S2}, fl \in RecordFlags }

\* manifests: every list of records in which no file name occurs twice
Manifests ==
    { m \in UNION {[1..n -> ManifestRecords] : n \in 0..Cardinality(Paths)} :
        \A i, j \in 1..Len(m) : i # j => m[i].filename # m[j].filename }

\* what the install root holds at a path: nothing, or source content with
\* either attribute value (so a record's file can be missing, genuine or stale)
DiskFiles == {NoFile, MkFile("d1", "x0"), MkFile("d1", "x1")}

\* staged files present before the sweep hold the content of their key
StagedBefore ==
    { [h \in Hashes |-> IF h \in present
                        THEN CHOOSE f \in {MkFile(d, x) : d \in Data, x \in Xattrs} :
                                 ContentHash(f) = h
                        ELSE NoFile] : present \in SUBSET {T1} }

\* the state in which apply_deltas is called with one of the given manifests
SweepInputs(manifests) ==
    /\ pc = "call"
    /\ log = {}
    /\ CodecIdle
    /\ PermIdle
    /\ dirExists \in BOOLEAN
    /\ deltaDir \in {d \in SUBSET DeltaNames : Cardinality(d) <= MaxDeltas}
    /\ dirExists = FALSE => deltaDir = {}
    /\ dirAtStart = deltaDir
    /\ pending = {}
    /\ manifest \in manifests
    /\ disk \in [Paths -> DiskFiles]
    /\ staged \in StagedBefore
    /\ last = NoLast
    /\ stagedAtStart = staged
    /\ workers = <<>>

InitSweep ==
    /\ SweepInputs(Manifests)
    /\ payload = <<>>
    /\ session = NoSession

NextSweep ==
    \/ ApplyDeltasOpen
    \/ \E ent \in DeltaNames : ApplyDeltasEntry(ent)
    \/ ApplyDeltasReturn

SpecSweep == InitSweep /\ [][NextSweep]_vars

(***************************************************************************)
(* The permission gate of 3rd-party updates                                *)
(***************************************************************************)
SWUPD_OK == "SWUPD_OK"
SWUPD_NO == "SWUPD_NO"
SWUPD_INVALID_FILE == "SWUPD_INVALID_FILE"

S_ISUID == "S_ISUID"
S_ISGID == "S_ISGID"
S_ISVTX == "S_ISVTX"

DangerousBits == {S_ISUID, S_ISGID, S_ISVTX}

\* lstat(path, &st): whether it returned 0, and the dangerous bits of st_mode
StatFailed == [ok |-> FALSE, st_mode |-> {}]

Stat(mode) == [ok |-> TRUE, st_mode |-> mode]

\* st_mode & bit
HasBit(st, bit) == bit \in st.st_mode

MsgNewDangerous == "The update has a new file with dangerous permissions"
MsgSetsDangerous == "The update sets dangerous permissions to file"
MsgGateDangerous ==
    "The 3rd-party update you are about to install contains files with dangerous permission"

\* struct file, the fields validate_permissions reads; present is "file != NULL"
\* and peer is "file->peer != NULL"
PermFile(present, del, peer, fn) ==
    [present |-> present, is_deleted |-> del, peer |-> peer, filename |-> fn]

Verdict(code, diags) == [ret_code |-> code, diags |-> diags]

\* mutant: an update of an existing file is flagged whenever the staged file
\* has a dangerous bit, whether or not the installed file had it
validate_permissions_no_compare(file, file_stats, original_file_stats) ==
    IF ~file.present \/ file.is_deleted THEN Verdict(SWUPD_OK, {})
    ELSE IF file_stats.ok
    THEN IF HasBit(file_stats, S_ISUID) \/ HasBit(file_stats, S_ISGID)
            \/ HasBit(file_stats, S_ISVTX)
         THEN IF ~file.peer
              THEN Verdict(SWUPD_NO, {Diag(MsgNewDangerous, NoName, file.filename)})
              ELSE IF original_file_stats.ok
              THEN Verdict(SWUPD_NO, {Diag(MsgSetsDangerous, NoName, file.filename)})
              ELSE Verdict(SWUPD_INVALID_FILE, {})
         ELSE Verdict(SWUPD_OK, {})
    ELSE Verdict(SWUPD_INVALID_FILE, {})

\* mutant: a new file is compared with whatever is installed at its path
validate_permissions_ignores_peer(file, file_stats, original_file_stats) ==
    IF ~file.present \/ file.is_deleted THEN Verdict(SWUPD_OK, {})
    ELSE IF file_stats.ok
    THEN IF HasBit(file_stats, S_ISUID) \/ HasBit(file_stats, S_ISGID)
            \/ HasBit(file_stats, S_ISVTX)
         THEN IF original_file_stats.ok
              THEN IF \/ HasBit(file_stats, S_ISUID) /\ ~HasBit(original_file_stats, S_ISUID)
                      \/ HasBit(file_stats, S_ISGID) /\ ~HasBit(original_file_stats, S_ISGID)
                      \/ HasBit(file_stats, S_ISVTX) /\ ~HasBit(original_file_stats, S_ISVTX)
                   THEN Verdict(SWUPD_NO, {Diag(MsgSetsDangerous, NoName, file.filename)})
                   ELSE Verdict(SWUPD_OK, {})
              ELSE Verdict(SWUPD_INVALID_FILE, {})
         ELSE Verdict(SWUPD_OK, {})
    ELSE Verdict(SWUPD_INVALID_FILE, {})

\* mutant: a staged file that cannot be stat'd is passed as clean
validate_permissions_missing_ok(file, file_stats, original_file_stats) ==
    IF ~file.present \/ file.is_deleted THEN Verdict(SWUPD_OK, {})
    ELSE IF file_stats.ok
    THEN IF HasBit(file_stats, S_ISUID) \/ HasBit(file_stats, S_ISGID)
            \/ HasBit(file_stats, S_ISVTX)
         THEN IF ~file.peer
              THEN Verdict(SWUPD_NO, {Diag(MsgNewDangerous, NoName, file.filename)})
              ELSE IF original_file_stats.ok
              THEN IF \/ HasBit(file_stats, S_ISUID) /\ ~HasBit(original_file_stats, S_ISUID)
                      \/ HasBit(file_stats, S_ISGID) /\ ~HasBit(original_file_stats, S_ISGID)
                      \/ HasBit(file_stats, S_ISVTX) /\ ~HasBit(original_file_stats, S_ISVTX)
                   THEN Verdict(SWUPD_NO, {Diag(MsgSetsDangerous, NoName, file.filename)})
                   ELSE Verdict(SWUPD_OK, {})
              ELSE Verdict(SWUPD_INVALID_FILE, {})
         ELSE Verdict(SWUPD_OK, {})
    ELSE Verdict(SWUPD_OK, {})

\* validate_permissions: file_stats is lstat of the staged file of file->hash,
\* original_file_stats is lstat of path_prefix/file->filename
validate_permissions(file, file_stats, original_file_stats) ==
    IF ~file.present \/ file.is_deleted THEN Verdict(SWUPD_OK, {})
    ELSE IF file_stats.ok
    THEN IF HasBit(file_stats, S_ISUID) \/ HasBit(file_stats, S_ISGID)
            \/ HasBit(file_stats, S_ISVTX)
         THEN IF ~file.peer
              THEN Verdict(SWUPD_NO, {Diag(MsgNewDangerous, NoName, file.filename)})
              ELSE IF original_file_stats.ok
              THEN IF \/ HasBit(file_stats, S_ISUID) /\ ~HasBit(original_file_stats, S_ISUID)
                      \/ HasBit(file_stats, S_ISGID) /\ ~HasBit(original_file_stats, S_ISGID)
                      \/ HasBit(file_stats, S_ISVTX) /\ ~HasBit(original_file_stats, S_ISVTX)
                   THEN Verdict(SWUPD_NO, {Diag(MsgSetsDangerous, NoName, file.filename)})
                   ELSE Verdict(SWUPD_OK, {})
              ELSE Verdict(SWUPD_INVALID_FILE, {})
         ELSE Verdict(SWUPD_OK, {})
    ELSE Verdict(SWUPD_INVALID_FILE, {})

\* severity order of the per-file outcomes (spec section 3):
\* Clean < Dangerous < IntegrityFailure
Severity(code) ==
    CASE code = SWUPD_OK -> 0
      [] code = SWUPD_NO -> 1
      [] code = SWUPD_INVALID_FILE -> 2

\* mutant: the code of the last file that did not pass is returned
RECURSIVE third_party_process_files_last_wins(_)
third_party_process_files_last_wins(codes) ==
    IF codes = <<>> THEN SWUPD_OK
    ELSE IF codes[Len(codes)] # SWUPD_OK THEN codes[Len(codes)]
    ELSE third_party_process_files_last_wins(SubSeq(codes, 1, Len(codes) - 1))

\* third_party_process_files(files, ..., validate_permissions): the aggregate
\* of the per-file return codes, the most severe of them
third_party_process_files(codes) ==
    LET all == {codes[i] : i \in 1..Len(codes)} \cup {SWUPD_OK}
    IN  CHOOSE c \in all : \A d \in all : Severity(d) <= Severity(c)

GateResult(code, asked, reply, diags) ==
    [ret_code |-> code, prompted |-> asked, answer |-> reply, diags |-> diags]

\* mutant: the operator is asked whatever made the validation fail
validate_file_permissions_asks_on_any_failure(processed, accept) ==
    IF processed # SWUPD_OK
    THEN IF accept
         THEN GateResult(SWUPD_OK, TRUE, "accept", {Diag(MsgGateDangerous, NoName, "")})
         ELSE GateResult(SWUPD_INVALID_FILE, TRUE, "decline",
                         {Diag(MsgGateDangerous, NoName, "")})
    ELSE GateResult(processed, FALSE, "none", {})

\* mutant: the operator is asked without the warning that announces the
\* dangerous files
validate_file_permissions_no_banner(processed, accept) ==
    IF processed # SWUPD_OK
    THEN IF processed = SWUPD_NO
         THEN IF accept
              THEN GateResult(SWUPD_OK, TRUE, "accept", {})
              ELSE GateResult(SWUPD_INVALID_FILE, TRUE, "decline", {})
         ELSE GateResult(processed, FALSE, "none", {})
    ELSE GateResult(processed, FALSE, "none", {})

\* validate_file_permissions after third_party_process_files returned
\* `processed`; accept is what confirm_action returns if it is called
validate_file_permissions(processed, accept) ==
    IF processed # SWUPD_OK
    THEN IF processed = SWUPD_NO
         THEN IF accept
              THEN GateResult(SWUPD_OK, TRUE, "accept",
                              {Diag(MsgGateDangerous, NoName, "")})
              ELSE GateResult(SWUPD_INVALID_FILE, TRUE, "decline",
                              {Diag(MsgGateDangerous, NoName, "")})
         ELSE GateResult(processed, FALSE, "none", {})
    ELSE GateResult(processed, FALSE, "none", {})

\* the call validate_file_permissions(files_to_be_updated)
ValidateFilePermissions ==
    /\ pc = "validate"
    /\ \E accept \in BOOLEAN :
        LET each == [i \in 1..Len(files) |->
                        validate_permissions(files[i], stagedStat[i], installedStat[i])]
            codes == [i \in 1..Len(files) |-> each[i].ret_code]
            processed == third_party_process_files(codes)
            gate == validate_file_permissions(processed, accept)
        IN  /\ verdicts' = codes
            /\ aggregate' = processed
            /\ prompted' = gate.prompted
            /\ answer' = gate.answer
            /\ gateRet' = gate.ret_code
            /\ log' = log \cup UNION {each[i].diags : i \in 1..Len(files)} \cup gate.diags
    /\ pc' = "validated"
    /\ UNCHANGED <<codecVars, sweepVars, files, stagedStat, installedStat>>

FileNameOf(i) == "/f" \o ToString(i)

\* a list element: NULL, a deleted record, a new file, an updated file
PermKinds ==
    { [present |-> FALSE, is_deleted |-> FALSE, peer |-> FALSE],
      [present |-> TRUE,  is_deleted |-> TRUE,  peer |-> FALSE],
      [present |-> TRUE,  is_deleted |-> FALSE, peer |-> FALSE],
      [present |-> TRUE,  is_deleted |-> FALSE, peer |-> TRUE] }

AllStats == {StatFailed} \cup {Stat(m) : m \in SUBSET DangerousBits}

\* the stat results tried in lists of several files
ListStagedStats == {StatFailed, Stat({}), Stat({S_ISUID})}

ListInstalledStats == {StatFailed, Stat({}), Stat({S_ISUID})}

\* A single file is tried with every mode of the staged and of the installed
\* file, longer lists with the modes above.  Records that are NULL or deleted
\* are never stat'd, so they come with one stat result only.
InitPerm ==
    /\ pc = "validate"
    /\ log = {}
    /\ CodecIdle
    /\ SweepIdle
    /\ \E n \in 0..MaxBatch :
        /\ \E kinds \in [1..n -> PermKinds] :
              files = [i \in 1..n |->
                          PermFile(kinds[i].present, kinds[i].is_deleted, kinds[i].peer,
                                   FileNameOf(i))]
        /\ stagedStat \in [1..n -> IF n = 1 THEN AllStats ELSE ListStagedStats]
        /\ installedStat \in [1..n -> IF n = 1 THEN AllStats ELSE ListInstalledStats]
        /\ \A i \in 1..n :
              (~files[i].present \/ files[i].is_deleted)
                  => stagedStat[i] = StatFailed /\ installedStat[i] = StatFailed
    /\ verdicts = <<>>
    /\ aggregate = "none"
    /\ prompted = FALSE
    /\ answer = "none"
    /\ gateRet = "none"

NextPerm == ValidateFilePermissions

SpecPerm == InitPerm /\ [][NextPerm]_vars

(***************************************************************************)
(* Properties                                                              *)
(***************************************************************************)

(***************************************************************************)
(* apply_deltas called a second time, after the first call returned or     *)
(* after the process was interrupted during the first call                 *)
(***************************************************************************)
Genuine(area) == \A h \in Hashes : area[h].exists => ContentHash(area[h]) = h

\* manifests whose records are all live regular files
RegularManifests ==
    {m \in Manifests :
        \A i \in 1..Len(m) : ~m[i].is_deleted /\ ~m[i].is_ghosted /\ m[i].is_file}

\* the second call of apply_deltas, nothing having changed since the first
\* returned
ApplyDeltasAgain ==
    /\ pc = "returned"
    /\ session.track
    /\ session.run = 1
    /\ pc' = "call"
    /\ session' = [session EXCEPT !.run = 2, !.primCalls = 0, !.order = <<>>,
                                  !.snap = <<staged, deltaDir, disk>>]
    /\ UNCHANGED <<log, codecVars, dirExists, deltaDir, dirAtStart, pending, manifest,
                   disk, staged, last, stagedAtStart, payload, workers, permVars>>

\* the process is interrupted between two iterations of the loop
Crash ==
    /\ pc = "readdir"
    /\ session.track
    /\ session.run = 1
    /\ pc' = "crashed"
    /\ pending' = {}
    /\ session' = [session EXCEPT !.crashed = TRUE]
    /\ UNCHANGED <<log, codecVars, dirExists, deltaDir, dirAtStart, manifest, disk,
                   staged, last, stagedAtStart, payload, workers, permVars>>

\* the points of apply_one_delta at which the process can be interrupted
\* having written: while apply_bsdiff_delta writes the destination, before
\* xattrs_copy, and before the hash of the destination is computed
CrashPoints == {"patching", "patched", "copied"}

\* The process is interrupted in the iteration for ent, inside
\* apply_one_delta: the destination holds what had been written by then and
\* the delta file has not been removed.
CrashInApply(ent) ==
    /\ pc = "readdir"
    /\ session.track
    /\ session.run = 1
    /\ ent \in pending
    /\ LET fs == FileSystem(staged, disk)
           parsed == check_delta_filename(ent)
           to_staged == statedir_get_staged_file(parsed.to)
       IN  /\ parsed.ok
           /\ ~lstat_staged(fs, to_staged)
           /\ \E hfail \in HashFailChoices \ {"staged"}, point \in CrashPoints :
               \E scan \in {FindSource(manifest, 1, parsed.from, disk, hfail)} :
                  /\ scan.found
                  /\ \E res \in {r \in PatchResults : point # "patching" => ~r.failed} :
                      LET from_file == InstallPath(scan.path)
                          patched == apply_bsdiff_delta(fs, from_file, to_staged, res)
                          copied == xattrs_copy(patched, from_file, to_staged)
                      IN  /\ staged' = IF point = "copied" THEN copied.staged
                                       ELSE patched.staged
                          /\ log' = log \cup scan.diags
    /\ pc' = "crashed"
    /\ pending' = {}
    /\ session' = [session EXCEPT !.crashed = TRUE, !.primCalls = @ + 1]
    /\ UNCHANGED <<codecVars, dirExists, deltaDir, dirAtStart, manifest, disk, last,
                   stagedAtStart, payload, workers, permVars>>

\* the process is started again and calls apply_deltas
Restart ==
    /\ pc = "crashed"
    /\ pc' = "call"
    /\ session' = [session EXCEPT !.run = 2, !.primCalls = 0, !.order = <<>>,
                                  !.snap = <<staged, deltaDir, disk>>]
    /\ UNCHANGED <<log, codecVars, dirExists, deltaDir, dirAtStart, pending, manifest,
                   disk, staged, last, stagedAtStart, payload, workers, permVars>>

InitResume ==
    /\ SweepInputs(RegularManifests)
    /\ payload = <<>>
    /\ session = [NoSession EXCEPT !.track = TRUE]

NextResume ==
    \/ NextSweep
    \/ ApplyDeltasAgain
    \/ Crash
    \/ \E ent \in DeltaNames : CrashInApply(ent)
    \/ Restart

SpecResume == InitResume /\ [][NextResume]_vars

(***************************************************************************)
(* The sweep with the behaviour of every delta file fixed beforehand, so   *)
(* that the orders in which readdir can return the entries can be compared *)
(***************************************************************************)
\* what the environment does for one delta file, whenever it is processed
FixedEnvs == [hfail : {"none", "staged"}, res : PatchResults]

\* a manifest with a genuine source for either source hash
OrderManifests ==
    {<<FileRecord("/p1", S1, FALSE, FALSE, TRUE), FileRecord("/p2", S2, FALSE, FALSE, TRUE)>>}

\* the file system after the loop has processed the entries in the order given
RECURSIVE SweepResult(_, _)
SweepResult(order, fs) ==
    IF order = <<>> THEN fs
    ELSE LET ent == Head(order)
         IN  SweepResult(Tail(order),
                         LoopBody(ent, fs, payload[ent].hfail, payload[ent].res).fs)

\* the orders in which readdir can return the entries of the directory
Orders(dir) ==
    {o \in [1..Cardinality(dir) -> dir] : \A i, j \in DOMAIN o : i # j => o[i] # o[j]}

InitOrder ==
    /\ SweepInputs(OrderManifests)
    /\ dirExists
    /\ \A p \in Paths : disk[p].exists
    /\ payload \in [deltaDir -> FixedEnvs]
    /\ session = [NoSession EXCEPT !.track = TRUE]

SpecOrder == InitOrder /\ [][NextSweep]_vars

(***************************************************************************)
(* The loop body of apply_deltas run by one worker per delta file, the     *)
(* workers interleaving step by step.  A worker owns the staged path of    *)
(* its target from the existence check until the hash check is over, and   *)
(* removes its delta file as its last step.                                *)
(***************************************************************************)
\* delta files tried in parallel: two with the same target, a third, and a
\* malformed name
ParNames == {Join(S1, T1), Join(S2, T1), Join(S2, T2), S1}

\* the steps during which a worker owns the staged path of its target
Owning == {"resolve", "apply", "verify"}

TargetOf(ent) == check_delta_filename(ent).to

\* some other worker owns the staged path of the target of ent
Owned(ent) ==
    \E w \in DOMAIN workers \ {ent} :
        /\ workers[w].step \in Owning
        /\ TargetOf(w) = TargetOf(ent)

\* check_delta_filename and the existence check of the staged target
ParCheck(ent) ==
    /\ pc = "parallel"
    /\ ent \in DOMAIN workers
    /\ workers[ent].step = "check"
    /\ LET parsed == check_delta_filename(ent)
           to_staged == statedir_get_staged_file(parsed.to)
       IN  IF ~parsed.ok
           THEN /\ log' = log \cup {Diag(MsgInvalidName, ent, "")}
                /\ workers' = [workers EXCEPT ![ent].step = "delete"]
           ELSE /\ ~Owned(ent)
                /\ log' = log
                /\ workers' = [workers EXCEPT ![ent].step =
                                  IF lstat_staged(FileSystem(staged, disk), to_staged)
                                  THEN "delete" ELSE "resolve"]
    /\ UNCHANGED <<pc, codecVars, dirExists, deltaDir, dirAtStart, pending, manifest, disk,
                   staged, last, stagedAtStart, payload, session, permVars>>

\* the scan of the manifest for a verified source
ParResolve(ent) ==
    /\ pc = "parallel"
    /\ ent \in DOMAIN workers
    /\ workers[ent].step = "resolve"
    /\ \E scan \in {FindSource(manifest, 1, check_delta_filename(ent).from, disk,
                                payload[ent].hfail)} :
          /\ log' = log \cup scan.diags
                        \cup (IF scan.found THEN {}
                              ELSE {Diag(MsgNoSource, NoName, ""),
                                    Diag(MsgRepairHint, NoName, "")})
          /\ workers' = [workers EXCEPT ![ent].step = IF scan.found THEN "apply"
                                                      ELSE "delete",
                                        ![ent].found = scan.path]
    /\ UNCHANGED <<pc, codecVars, dirExists, deltaDir, dirAtStart, pending, manifest, disk,
                   staged, last, stagedAtStart, payload, session, permVars>>

\* apply_one_delta up to xattrs_copy
ParApply(ent) ==
    /\ pc = "parallel"
    /\ ent \in DOMAIN workers
    /\ workers[ent].step = "apply"
    /\ LET res == payload[ent].res
           from_file == InstallPath(workers[ent].found)
           to_staged == statedir_get_staged_file(TargetOf(ent))
           patched == apply_bsdiff_delta(FileSystem(staged, disk), from_file, to_staged, res)
           copied == xattrs_copy(patched, from_file, to_staged)
       IN  IF res.failed
           THEN /\ staged' = patched.staged
                /\ workers' = [workers EXCEPT ![ent].step = "delete"]
           ELSE /\ staged' = copied.staged
                /\ workers' = [workers EXCEPT ![ent].step = "verify"]
    /\ UNCHANGED <<pc, log, codecVars, dirExists, deltaDir, dirAtStart, pending, manifest,
                   disk, last, stagedAtStart, payload, session, permVars>>

\* apply_one_delta from the hash check on
ParVerify(ent) ==
    /\ pc = "parallel"
    /\ ent \in DOMAIN workers
    /\ workers[ent].step = "verify"
    /\ LET fs == FileSystem(staged, disk)
           to_staged == statedir_get_staged_file(TargetOf(ent))
           h == compute_hash_from_file(FileAt(fs, to_staged), payload[ent].hfail = "staged")
       IN  IF ~h.ok
           THEN /\ log' = log \cup {Diag(MsgHashFailed, ent, "")}
                /\ staged' = remove(fs, to_staged).staged
           ELSE IF ~hash_equal(h.hash, TargetOf(ent))
           THEN /\ log' = log \cup {Diag(MsgWrongHash, ent, "")}
                /\ staged' = remove(fs, to_staged).staged
           ELSE /\ log' = log
                /\ staged' = staged
    /\ workers' = [workers EXCEPT ![ent].step = "delete"]
    /\ UNCHANGED <<pc, codecVars, dirExists, deltaDir, dirAtStart, pending, manifest, disk,
                   last, stagedAtStart, payload, session, permVars>>

\* the code at label next, run by the worker of ent
ParDelete(ent) ==
    /\ pc = "parallel"
    /\ ent \in DOMAIN workers
    /\ workers[ent].step = "delete"
    /\ deltaDir' = remove_delta_file(deltaDir, ent)
    /\ workers' = [workers EXCEPT ![ent].step = "done"]
    /\ UNCHANGED <<pc, log, codecVars, dirExists, dirAtStart, pending, manifest, disk,
                   staged, last, stagedAtStart, payload, session, permVars>>

\* every worker has finished
AllDone == pc = "parallel" /\ \A ent \in DOMAIN workers : workers[ent].step = "done"

InitPar ==
    /\ pc = "parallel"
    /\ log = {}
    /\ CodecIdle
    /\ PermIdle
    /\ dirExists = TRUE
    /\ deltaDir \in SUBSET ParNames
    /\ deltaDir # ParNames
    /\ dirAtStart = deltaDir
    /\ pending = {}
    /\ manifest \in OrderManifests
    /\ disk = [p \in Paths |-> IF p = "/p1" THEN MkFile("d1", "x0") ELSE MkFile("d1", "x1")]
    /\ staged \in StagedBefore
    /\ last = NoLast
    /\ stagedAtStart = staged
    /\ payload \in [deltaDir -> FixedEnvs]
    /\ \A ent \in deltaDir : ~check_delta_filename(ent).ok => payload[ent] = QuietEnv
    /\ workers = [ent \in deltaDir |-> [step |-> "check", found |-> ""]]
    /\ session = NoSession

NextPar ==
    \E ent \in ParNames :
        \/ ParCheck(ent)
        \/ ParResolve(ent)
        \/ ParApply(ent)
        \/ ParVerify(ent)
        \/ ParDelete(ent)

SpecPar == InitPar /\ [][NextPar]_vars

(***************************************************************************)
(* The core as a whole: a sweep of the pending deltas or a run of the      *)
(* permission gate                                                         *)
(***************************************************************************)
InitCore == InitSweep \/ InitPerm

NextCore == NextSweep \/ NextPerm

SpecCore == InitCore /\ [][NextCore]_vars

\* the (A, B) for which name is A-B, or V1-V2-A-B with V1 and V2 free of '-',
\* with A and B of hash_len characters each
NameForms(name) ==
    LET n == Len(name)
        tail(k) == SubSeq(name, k, n)
        split(t) == <<SubSeq(t, 1, hash_len), SubSeq(t, hash_len + 2, 2 * hash_len + 1)>>
        wellSized(t) == Len(t) = 2 * hash_len + 1 /\ t[hash_len + 1] = Dash
        dashless(lo, hi) == \A k \in lo..hi : name[k] # Dash
    IN  {split(name) : x \in {1} \cap (IF wellSized(name) THEN {1} ELSE {})}
        \cup
        {split(tail(j + 1)) : j \in
            {j \in 2..n : /\ name[j] = Dash
                          /\ \E i \in 1..(j - 1) :
                                /\ name[i] = Dash
                                /\ dashless(1, i - 1)
                                /\ dashless(i + 1, j - 1)
                          /\ wellSized(tail(j + 1))}}

\* C1: when apply_deltas has returned, no entry that was in the
\* pending-deltas directory when it was called is still there.
C1_EveryArtifactDeleted ==
    pc = "returned" => dirAtStart \cap deltaDir = {}

\* a sweep over a full directory has returned, its last delta having been
\* rejected for a wrong hash
C1_Witness ==
    /\ pc = "returned"
    /\ Cardinality(dirAtStart) = MaxDeltas
    /\ last.outcome = "wrong hash"

\* C2: after apply_one_delta whose patch primitive succeeded: if the output
\* (data written, attributes copied from the source) hashes to the target
\* hash and the hash can be computed, the staged file for the target hash
\* exists and hashes to it; if the output hashes to something else or cannot
\* be hashed, there is no staged file for the target hash.
C2_ApplyVerifiesOrRemoves ==
    last.primitive = "succeeded" =>
        LET out == MkFile(last.wrote, disk[last.found].xattrs)
            good == ~last.hashFailed /\ ContentHash(out) = last.to
        IN  /\ ContentHash(disk[last.found]) = last.from
            /\ good => /\ staged[last.to].exists
                       /\ ContentHash(staged[last.to]) = last.to
            /\ ~good => ~staged[last.to].exists

\* the primitive produced the target content from a source with attributes
C2_Witness ==
    /\ last.primitive = "succeeded"
    /\ last.outcome = "applied"
    /\ last.to = T2
    /\ staged[T2] = MkFile("d2", "x1")

\* C3: when the patch primitive reports failure, no staged file is left for
\* the target hash and a warning naming the delta file has been emitted.
C3_PrimitiveFailureLeavesNothing ==
    last.primitive = "failed" =>
        /\ ~staged[last.to].exists
        /\ \E d \in log : d.name = last.name

\* C4: the path handed to apply_one_delta is the file name of a manifest
\* record whose hash is the delta's source hash and whose file on disk exists
\* and hashes to the source hash.
C4_SourceIsVerified ==
    last.found # "" =>
        /\ \E i \in 1..Len(manifest) :
              /\ manifest[i].filename = last.found
              /\ manifest[i].hash = last.from
        /\ disk[last.found].exists
        /\ ContentHash(disk[last.found]) = last.from

\* an earlier record with the same nominal hash is stale or missing on disk
\* and the later, genuine one was handed to the patch step
C4_Witness ==
    /\ last.found # ""
    /\ Len(manifest) = 2
    /\ manifest[1].hash = last.from
    /\ manifest[2].hash = last.from
    /\ ~manifest[1].is_deleted /\ ~manifest[1].is_ghosted /\ manifest[1].is_file
    /\ disk[manifest[1].filename].exists
    /\ ContentHash(disk[manifest[1].filename]) # last.from
    /\ manifest[2].filename = last.found

\* C5: check_delta_filename succeeds exactly on the names of the form A-B or
\* V1-V2-A-B with |A| = |B| = hash_len, returning (A, B) in that order, and
\* fails with no hashes on every other string.
C5_CodecParsesExactlyValidNames ==
    codecResult.done =>
        LET forms == NameForms(codecName)
        IN  IF forms # {}
            THEN /\ codecResult.ok
                 /\ forms = {<<codecResult.from, codecResult.to>>}
            ELSE /\ ~codecResult.ok
                 /\ codecResult.from = <<>>
                 /\ codecResult.to = <<>>

\* a legacy name with the longest version prefix tried, its first version
\* token not empty, was parsed into two different hashes
C5_Witness ==
    /\ codecResult.done
    /\ codecResult.ok
    /\ Len(codecName) = 2 * hash_len + 1 + MaxPrefixLen
    /\ codecName[1] # Dash
    /\ codecResult.from # codecResult.to

\* list elements validate_permissions goes on to stat
Live(i) == files[i].present /\ ~files[i].is_deleted

\* the staged file of element i has one of the dangerous bits
StagedDangerous(i) == stagedStat[i].ok /\ stagedStat[i].st_mode # {}

\* dangerous bits of the staged file that the installed file does not have
NewBits(i) == stagedStat[i].st_mode \ installedStat[i].st_mode

\* C6: for an updated file (peer present) whose staged and installed files
\* can both be stat'd, the verdict is SWUPD_NO exactly when a dangerous bit
\* is set in the staged mode and not in the installed mode, and SWUPD_OK
\* when every dangerous bit of the staged mode is also in the installed mode.
C6_EscalationOnlyOnNewBits ==
    pc = "validated" =>
        \A i \in 1..Len(files) :
            (Live(i) /\ files[i].peer /\ stagedStat[i].ok /\ installedStat[i].ok) =>
                /\ verdicts[i] = SWUPD_NO <=> NewBits(i) # {}
                /\ NewBits(i) = {} => verdicts[i] = SWUPD_OK

\* an updated file that lost a dangerous bit and kept another one passed
C6_Witness ==
    /\ pc = "validated"
    /\ \E i \in 1..Len(files) :
          /\ Live(i) /\ files[i].peer
          /\ stagedStat[i] = Stat({S_ISGID})
          /\ installedStat[i] = Stat({S_ISUID, S_ISGID})
          /\ verdicts[i] = SWUPD_OK

\* C7: a new file (no peer) whose staged file can be stat'd and has a
\* dangerous bit gets SWUPD_NO, whatever is installed at its path.
C7_NewDangerousAlwaysFlagged ==
    pc = "validated" =>
        \A i \in 1..Len(files) :
            (Live(i) /\ ~files[i].peer /\ StagedDangerous(i)) => verdicts[i] = SWUPD_NO

\* a new setuid file was flagged although a file with the same bits is
\* installed at its path
C7_Witness ==
    /\ pc = "validated"
    /\ \E i \in 1..Len(files) :
          /\ Live(i) /\ ~files[i].peer
          /\ stagedStat[i] = Stat({S_ISUID})
          /\ installedStat[i] = Stat({S_ISUID})
          /\ verdicts[i] = SWUPD_NO

\* C8: the verdict is SWUPD_INVALID_FILE exactly for a record that is present
\* and not deleted and whose staged file cannot be stat'd, or whose staged
\* file has a dangerous bit while it has a peer and the installed file cannot
\* be stat'd; absent and deleted records are clean, and so is a staged file
\* with no dangerous bit even when the installed file of its peer is missing.
C8_IntegrityFailureExactly ==
    pc = "validated" =>
        \A i \in 1..Len(files) :
            /\ verdicts[i] = SWUPD_INVALID_FILE <=>
                  /\ Live(i)
                  /\ \/ ~stagedStat[i].ok
                     \/ StagedDangerous(i) /\ files[i].peer /\ ~installedStat[i].ok
            /\ ~Live(i) => verdicts[i] = SWUPD_OK
            /\ (Live(i) /\ stagedStat[i].ok /\ stagedStat[i].st_mode = {})
                  => verdicts[i] = SWUPD_OK

\* an updated file with a harmless staged mode passed although its installed
\* file is missing, and another one failed for its missing staged file
C8_Witness ==
    /\ pc = "validated"
    /\ \E i, j \in 1..Len(files) :
          /\ Live(i) /\ files[i].peer
          /\ stagedStat[i] = Stat({}) /\ ~installedStat[i].ok
          /\ verdicts[i] = SWUPD_OK
          /\ Live(j) /\ ~stagedStat[j].ok
          /\ verdicts[j] = SWUPD_INVALID_FILE

\* C9: the aggregate of a list is the most severe per-file verdict, wherever
\* in the list it stands: SWUPD_INVALID_FILE if any file has it, else
\* SWUPD_NO if any file has it, else SWUPD_OK.
C9_AggregateIsMaxSeverity ==
    pc = "validated" =>
        LET has(c) == \E i \in 1..Len(files) : verdicts[i] = c
        IN  /\ has(SWUPD_INVALID_FILE) => aggregate = SWUPD_INVALID_FILE
            /\ (~has(SWUPD_INVALID_FILE) /\ has(SWUPD_NO)) => aggregate = SWUPD_NO
            /\ (~has(SWUPD_INVALID_FILE) /\ ~has(SWUPD_NO)) => aggregate = SWUPD_OK

\* a clean file, then an integrity failure, then a dangerous file
C9_Witness ==
    /\ pc = "validated"
    /\ Len(files) = 3
    /\ verdicts = <<SWUPD_OK, SWUPD_INVALID_FILE, SWUPD_NO>>
    /\ aggregate = SWUPD_INVALID_FILE

\* C10: the gate asks the operator exactly when the aggregate is SWUPD_NO;
\* it returns SWUPD_OK exactly when the aggregate is SWUPD_OK, or is SWUPD_NO
\* and the operator accepted; an aggregate of SWUPD_INVALID_FILE is returned
\* as it is, without asking; SWUPD_NO is never returned.
C10_GatePromptsOnlyOnDangerous ==
    pc = "validated" =>
        /\ prompted <=> aggregate = SWUPD_NO
        /\ gateRet = SWUPD_OK <=>
              \/ aggregate = SWUPD_OK
              \/ aggregate = SWUPD_NO /\ answer = "accept"
        /\ aggregate = SWUPD_INVALID_FILE => gateRet = SWUPD_INVALID_FILE /\ ~prompted
        /\ gateRet # SWUPD_NO

\* a list with a dangerous file and an integrity failure was rejected without
\* asking the operator
C10_Witness ==
    /\ pc = "validated"
    /\ aggregate = SWUPD_INVALID_FILE
    /\ \E i \in 1..Len(files) : verdicts[i] = SWUPD_NO
    /\ ~prompted
    /\ gateRet = SWUPD_INVALID_FILE

\* C11: a rejection because the operator declined dangerous files can be told
\* from a rejection because of an integrity failure by the gate's output.
\* Both return SWUPD_INVALID_FILE; the warning that announces the dangerous
\* files (followed by the question) is emitted when the operator declined, and
\* never when the aggregate is an integrity failure.
C11_DeclineDistinctFromIntegrityFailure ==
    pc = "validated" =>
        /\ answer = "decline" =>
              /\ gateRet = SWUPD_INVALID_FILE
              /\ Diag(MsgGateDangerous, NoName, "") \in log
        /\ aggregate = SWUPD_INVALID_FILE =>
              /\ gateRet = SWUPD_INVALID_FILE
              /\ Diag(MsgGateDangerous, NoName, "") \notin log

\* the operator was asked about a dangerous file and declined
C11_Witness ==
    /\ pc = "validated"
    /\ aggregate = SWUPD_NO
    /\ answer = "decline"
    /\ gateRet = SWUPD_INVALID_FILE
    /\ Diag(MsgGateDangerous, NoName, "") \in log

\* C14: staging is write-once.  In every iteration of the sweep a staged file
\* that exists when the iteration starts is left exactly as it is, and the
\* patch primitive is called for a target only if no staged file of that
\* target existed when the iteration checked; so an entry whose target was
\* staged by an earlier entry is passed over without the primitive.
C14_WriteOnceStaging ==
    [][pending' # pending =>
          /\ \A h \in Hashes : staged[h].exists => staged'[h] = staged[h]
          /\ last'.primitive # "not called" => ~staged[last'.to].exists
          /\ (last'.to \in Hashes /\ staged[last'.to].exists) =>
                 last'.outcome = "already staged"]_vars

\* an entry was passed over because an earlier entry of this sweep had staged
\* its target, which was not staged when the sweep began
C14_Witness ==
    /\ last.outcome = "already staged"
    /\ ~stagedAtStart[last.to].exists
    /\ ContentHash(staged[last.to]) = last.to
    /\ Cardinality({n \in dirAtStart : check_delta_filename(n).ok
                                        /\ check_delta_filename(n).to = last.to}) > 1

\* the manifest record i names the delta's source hash as the hash of a live
\* regular file
Candidate(i) ==
    /\ ~manifest[i].is_deleted
    /\ ~manifest[i].is_ghosted
    /\ manifest[i].is_file
    /\ manifest[i].hash = last.from

\* the file of record i was on disk, could be hashed in the last iteration and
\* hashed to the delta's source hash
OnDiskGenuine(i) ==
    /\ disk[manifest[i].filename].exists
    /\ manifest[i].filename # last.unreadable
    /\ ContentHash(disk[manifest[i].filename]) = last.from

Usable == {i \in 1..Len(manifest) : Candidate(i) /\ OnDiskGenuine(i)}

\* C17: in an iteration that reaches the scan, the path handed on is that of
\* the first manifest record, in list order, that is not deleted, not ghosted,
\* a regular file, has the source hash and whose file on disk hashes to the
\* source hash; candidates before it that fail on disk are reported and passed
\* over; "no usable source" is the outcome exactly when there is no such
\* record, and then the patch primitive is not called.
C17_ScanReturnsFirstUsable ==
    last.outcome \notin {"none", "invalid name", "already staged"} =>
        /\ last.outcome = "no source" <=> Usable = {}
        /\ Usable # {} =>
              \E i \in Usable :
                  /\ \A j \in Usable : i <= j
                  /\ last.found = manifest[i].filename
                  /\ last.primitive # "not called"
                  /\ \A j \in 1..(i - 1) :
                        Candidate(j) =>
                            Diag(MsgMissingOrCorrupted, NoName, manifest[j].filename) \in log
        /\ Usable = {} =>
              /\ last.found = ""
              /\ last.primitive = "not called"
              /\ Diag(MsgNoSource, NoName, "") \in log
              /\ \A j \in 1..Len(manifest) :
                    Candidate(j) =>
                        Diag(MsgMissingOrCorrupted, NoName, manifest[j].filename) \in log

\* the first candidate was genuine on disk but could not be hashed, and the
\* scan went on to the second record, which was handed to the patch step
C17_Witness ==
    /\ Len(manifest) = 2
    /\ Candidate(1) /\ Candidate(2)
    /\ last.unreadable = manifest[1].filename
    /\ last.found = manifest[2].filename
    /\ last.primitive # "not called"
    /\ Diag(MsgMissingOrCorrupted, NoName, manifest[1].filename) \in log

\* C16: every delta file the sweep passes over or rejects (invalid name,
\* target already staged, no verified source, failure of the patch primitive,
\* hash failure or wrong hash) and every file the permission check rejects has
\* a diagnostic in the output that names it.
C16_EveryRejectionHasDiagnostic ==
    /\ last.outcome \notin {"none", "applied"} =>
          \E d \in log : d.name = last.name
    /\ pc = "validated" =>
          \A i \in 1..Len(files) :
              verdicts[i] # SWUPD_OK => \E d \in log : d.file = files[i].filename

\* C15: no step of apply_deltas or of the permission gate creates, changes or
\* deletes a file under the install root or changes a file record of the
\* manifest or of the list being validated; the pending-deltas directory only
\* loses entries; everything else that changes on disk is the staging area.
C15_Frame ==
    [][/\ disk' = disk
       /\ manifest' = manifest
       /\ files' = files
       /\ installedStat' = installedStat
       /\ stagedStat' = stagedStat
       /\ dirExists' = dirExists
       /\ deltaDir' \subseteq deltaDir]_vars

\* a delta was applied: its target is staged with the attributes of the source
\* copied onto it, the delta file is gone and the source is still in place
C15_Witness ==
    /\ last.outcome = "applied"
    /\ staged[last.to].exists
    /\ ~stagedAtStart[last.to].exists
    /\ staged[last.to].xattrs = "x1"
    /\ disk[last.found].xattrs = "x1"
    /\ last.name \notin deltaDir

\* C12: when apply_deltas is called again after it returned, nothing having
\* changed in between, the second call finds the pending-deltas directory
\* empty (if there is one), never calls the patch primitive and leaves the
\* staging area, the directory and the install root as the first call left
\* them.
C12_SecondRunIsNoOp ==
    (session.run = 2 /\ ~session.crashed) =>
        /\ session.primCalls = 0
        /\ <<staged, deltaDir, disk>> = session.snap
        /\ deltaDir = {}

\* the second call has returned after a first call that staged a file from a
\* directory of two delta files
C12_Witness ==
    /\ session.run = 2
    /\ ~session.crashed
    /\ pc = "returned"
    /\ Cardinality(dirAtStart) = 2
    /\ \E h \in Hashes : staged[h].exists /\ ~stagedAtStart[h].exists

\* C13: when the process was interrupted during a sweep, between two
\* iterations or inside apply_one_delta with the destination partly written,
\* then after the next call of apply_deltas has returned every staged file
\* holds the content its key names and no delta file is left.  This is stated
\* for the runs in which no call of the patch primitive returned a failure.
C13_CrashThenRunIsSafe ==
    (session.crashed /\ session.run = 2 /\ pc = "returned" /\ ~session.primFailed) =>
        /\ Genuine(staged)
        /\ deltaDir = {}

\* C18: when the sweep returns, every entry of the directory has been
\* processed exactly once, whatever failed on the way, and the staging area is
\* the one that any other order of the same entries would have produced, each
\* entry behaving the same in every order.
C18_OrderIndependent ==
    (pc = "returned" /\ session.track /\ dirExists) =>
        /\ Len(session.order) = Cardinality(dirAtStart)
        /\ {session.order[i] : i \in 1..Len(session.order)} = dirAtStart
        /\ \A o \in Orders(dirAtStart) :
              SweepResult(o, FileSystem(stagedAtStart, disk)).staged = staged

\* C19: when every worker of the parallel sweep has finished, the staging
\* area is the one some sequential order of the same delta files produces,
\* every staged file holds the content its key names, and the pending-deltas
\* directory is empty.
C19_ParallelAsSequential ==
    AllDone =>
        /\ \E o \in Orders(dirAtStart) :
              SweepResult(o, FileSystem(stagedAtStart, disk)).staged = staged
        /\ Genuine(staged)
        /\ deltaDir = {}

====
